---- MODULE Spec2Model ----
(***************************************************************************)
(* Layout persistence of StoryWorkspace (crates/app/src/story_workspace.rs) *)
(* as a state machine: startup load of layout.json, the version prompt,     *)
(* reset to the built-in default layout, the debounced save started by      *)
(* every DockEvent::LayoutChanged, and the flush registered with            *)
(* on_app_quit.                                                             *)
(*                                                                          *)
(* Time is abstract: a Timer::after(10s) that was started and not dropped   *)
(* may expire at any later step, so "another notification arrives before    *)
(* the timer expires" is the interleaving LayoutChanged-before-Expire.      *)
(* Result::unwrap() on an Err is a panic; the model records it as           *)
(* pc = "crashed" and nothing runs afterwards.                              *)
(***************************************************************************)
EXTENDS Naturals, Sequences, FiniteSets, TLC

VARIABLES
    pc,                 \* "init" | "running" | "quitting" | "exited" | "crashed"
    file,               \* content of layout.json
    dock_area,          \* the live DockArea (panel instances, sizes, version)
    last_layout_state,  \* StoryWorkspace.last_layout_state : Option<DockAreaState>
    _save_layout_task,  \* StoryWorkspace._save_layout_task : Option<Task<()>> (a task id)
    tasks,              \* every timer task spawned by save_layout: id -> status
    prompt,             \* "none" | "outstanding" | "yes" | "no" | "dismissed"
    quit_state,         \* the state dumped by the on_app_quit callback
    startup,            \* outcome of load_layout in new: "ok" | "read_error" | ...
    loaded,             \* the DockAreaState parsed by load_layout (None if none)
    resets,             \* the callers of reset_default_layout so far, in order
    n_prompts,          \* number of cx.prompt calls so far
    last_written,       \* the last successful write to layout.json by this process
    notified_state,     \* dump of the dock area at the last LayoutChanged delivered
    changed,            \* the dock area changed since the last timer expiry
    expiry_log,         \* the last two timer expiries that ran their expiry logic
    crash_site          \* where the process panicked

vars == << pc, file, dock_area, last_layout_state, _save_layout_task, tasks, prompt,
           quit_state, startup, loaded, resets, n_prompts, last_written,
           notified_state, changed, expiry_log, crash_site >>

\* Bound on the number of steps of one run that deliver LayoutChanged (a gesture
\* delivers one event, a reset the four of its setters).
MaxNotifySteps == 3

\* Option<T>: None is the empty tuple, Some(x) the one-element tuple.
None == << >>

Some(x) == << x >>

\* MAIN_DOCK_AREA.version
EXPECTED_VERSION == 5

\* A version an older build wrote into layout.json.
STALE_VERSION == 3

-----------------------------------------------------------------------------
(* Panels and the default layout                                           *)

\* The story panels of the default root tabs, in the order of init_default_layout.
DefaultTabKeys ==
    << "ButtonStory", "InputStory", "DropdownStory", "TextStory", "ModalStory",
       "PopupStory", "SwitchStory", "ProgressStory", "TableStory", "ImageStory",
       "IconStory", "TooltipStory", "ProgressStory", "CalendarStory",
       "ResizableStory", "ScrollableStory", "AccordionStory" >>

\* The panel keys the registry resolves: the stories imported from the story crate.
RegisteredKeys ==
    { "AccordionStory", "ButtonStory", "CalendarStory", "DropdownStory", "IconStory",
      "ImageStory", "InputStory", "ListStory", "ModalStory", "PopupStory",
      "ProgressStory", "ResizableStory", "ScrollableStory", "SwitchStory",
      "TableStory", "TextStory", "TooltipStory" }

\* A panel key of an older layout that the registry no longer resolves.
UnknownKey == "WebViewStory"

\* StoryContainer::panel::<S>(cx): a new panel instance; gen numbers the
\* construction (load or reset) and slot the position within it.
Panel(key, gen, slot) == [key |-> key, id |-> gen * 100 + slot]

\* A sequence of new panel instances for keys, at slots base+1 ..
Panels(keys, gen, base) == [i \in 1..Len(keys) |-> Panel(keys[i], gen, base + i)]

\* DockItem::tabs(panels, None, ..): a tab group, first tab active.
DockItemTabs(panels) == [type |-> "tabs", panels |-> panels, active_index |-> 0]

\* DockItem::split_with_sizes(axis, items, sizes, ..)
DockItemSplit(axis, items, sizes) ==
    [type |-> "split", axis |-> axis, children |-> items, sizes |-> sizes]

\* Mutant: the split is built with one size more than it has children.
init_default_layout_two_sizes(gen) ==
    DockItemSplit("vertical", << DockItemTabs(Panels(DefaultTabKeys, gen, 0)) >>, << None, None >>)

\* init_default_layout: a vertical split of one tab group of the 17 stories.
init_default_layout(gen) ==
    DockItemSplit("vertical", << DockItemTabs(Panels(DefaultTabKeys, gen, 0)) >>, << None >>)

\* DockArea::new(id, Some(version)): an empty dock area.
NewDockArea(version) ==
    [version |-> version,
     root    |-> DockItemTabs(<< >>),
     left    |-> None,
     bottom  |-> None,
     right   |-> None]

\* DockArea setters used by reset_default_layout.
set_version(view, version) == [view EXCEPT !.version = version]
set_root(view, item) == [view EXCEPT !.root = item]
set_left_dock(view, panels, size) == [view EXCEPT !.left = Some([panels |-> panels, size |-> size])]
set_bottom_dock(view, panels, size) == [view EXCEPT !.bottom = Some([panels |-> panels, size |-> size])]
set_right_dock(view, panels, size) == [view EXCEPT !.right = Some([panels |-> panels, size |-> size])]

\* Number of LayoutChanged events the four subtree setters emit in one reset.
ResetEvents == 4

\* Mutant: the reset forgets to stamp the version (no set_version).
reset_without_version(view, gen) ==
    LET v2 == set_root(view, init_default_layout(gen))
        v3 == set_left_dock(v2, Panels(<< "ListStory" >>, gen, 17), Some(350))
        v4 == set_bottom_dock(v3, Panels(<< "TooltipStory", "IconStory" >>, gen, 18), Some(200))
    IN  set_right_dock(v4, Panels(<< "ImageStory" >>, gen, 20), Some(320))

\* reset_default_layout's effect on the dock area: the default root, the left
\* dock (350px), the bottom dock (200px), the right dock (320px), version 5.
reset_default_layout(view, gen) ==
    LET dock_item     == init_default_layout(gen)
        left_panels   == Panels(<< "ListStory" >>, gen, 17)
        bottom_panels == Panels(<< "TooltipStory", "IconStory" >>, gen, 18)
        right_panels  == Panels(<< "ImageStory" >>, gen, 20)
        v1 == set_version(view, Some(EXPECTED_VERSION))
        v2 == set_root(v1, dock_item)
        v3 == set_left_dock(v2, left_panels, Some(350))
        v4 == set_bottom_dock(v3, bottom_panels, Some(200))
    IN  set_right_dock(v4, right_panels, Some(320))

-----------------------------------------------------------------------------
(* dump and load: DockArea <-> DockAreaState                               *)

\* The identity a panel instance dumps: its key.
PanelKeys(panels) == [i \in 1..Len(panels) |-> panels[i].key]

RECURSIVE dump_item(_)
\* The serializable form of a dock item.
dump_item(item) ==
    IF item.type = "tabs"
    THEN [type |-> "tabs", panels |-> PanelKeys(item.panels),
          active_index |-> item.active_index]
    ELSE [type |-> "split", axis |-> item.axis,
          children |-> [i \in 1..Len(item.children) |-> dump_item(item.children[i])],
          sizes |-> item.sizes]

\* The serializable form of an auxiliary dock.
dump_dock(dock) ==
    IF dock = None THEN None
    ELSE Some([panels |-> PanelKeys(dock[1].panels), size |-> dock[1].size])

\* DockArea::dump: the DockAreaState of the live dock area.
dump(view) ==
    [version |-> view.version,
     root    |-> dump_item(view.root),
     left    |-> dump_dock(view.left),
     bottom  |-> dump_dock(view.bottom),
     right   |-> dump_dock(view.right)]

RECURSIVE item_keys(_)
\* The panel keys a serialized dock item names.
item_keys(item) ==
    IF item.type = "tabs"
    THEN {item.panels[i] : i \in 1..Len(item.panels)}
    ELSE UNION {item_keys(item.children[i]) : i \in 1..Len(item.children)}

\* The panel keys a serialized auxiliary dock names.
dock_keys(dock) ==
    IF dock = None THEN {} ELSE {dock[1].panels[i] : i \in 1..Len(dock[1].panels)}

\* Every panel key of a DockAreaState.
state_keys(state) ==
    item_keys(state.root) \cup dock_keys(state.left)
        \cup dock_keys(state.bottom) \cup dock_keys(state.right)

\* Whether the registry resolves every panel key of the state.
Resolvable(state) == state_keys(state) \subseteq RegisteredKeys

RECURSIVE load_item(_, _, _)
\* A live dock item rebuilt from its serialized form, with new panel instances.
load_item(item, gen, base) ==
    IF item.type = "tabs"
    THEN [type |-> "tabs", panels |-> Panels(item.panels, gen, base),
          active_index |-> item.active_index]
    ELSE [type |-> "split", axis |-> item.axis,
          children |-> [i \in 1..Len(item.children) |->
                            load_item(item.children[i], gen, base + (i - 1) * 20)],
          sizes |-> item.sizes]

\* A live auxiliary dock rebuilt from its serialized form.
load_dock(dock, gen, base) ==
    IF dock = None THEN None
    ELSE Some([panels |-> Panels(dock[1].panels, gen, base), size |-> dock[1].size])

\* DockArea::load on success: the tree, the docks and the version of the state.
load(view, state, gen) ==
    [version |-> state.version,
     root    |-> load_item(state.root, gen, 0),
     left    |-> load_dock(state.left, gen, 60),
     bottom  |-> load_dock(state.bottom, gen, 70),
     right   |-> load_dock(state.right, gen, 80)]

-----------------------------------------------------------------------------
(* layout.json                                                             *)

\* serde_json::to_string_pretty(state): the document the file holds.
to_string_pretty(state) == [kind |-> "json", value |-> state]

\* serde_json::from_str::<DockAreaState>: Some(state), or None on a parse error.
from_str(json) == IF json.kind = "json" THEN Some(json.value) ELSE None

\* save_state: the file after std::fs::write, which either replaces the whole
\* file (io_ok) or fails and leaves it.
save_state(f, state, io_ok) == IF io_ok THEN to_string_pretty(state) ELSE f

\* No layout.json on disk: std::fs::read_to_string fails.
MissingFile == [kind |-> "missing"]

\* A layout.json that is not a DockAreaState document.
CorruptFile == [kind |-> "corrupt"]

-----------------------------------------------------------------------------
(* User gestures on the dock area; each emits one LayoutChanged            *)

\* Activate tab i of the root's first tab group.
SelectTab(view, i) ==
    IF view.root.type = "split" /\ Len(view.root.children) > 0
    THEN [view EXCEPT !.root.children[1].active_index = i]
    ELSE view

\* Resize the left dock to size px.
ResizeLeft(view, size) ==
    IF view.left = None THEN view
    ELSE [view EXCEPT !.left = Some([view.left[1] EXCEPT !.size = Some(size)])]

\* The gestures the model draws from.
Gestures ==
    {[op |-> "select_tab", arg |-> i] : i \in {0, 1}}
        \cup {[op |-> "resize_left", arg |-> n] : n \in {350, 300}}

\* The dock area after gesture g.
ApplyGesture(view, g) ==
    IF g.op = "select_tab" THEN SelectTab(view, g.arg) ELSE ResizeLeft(view, g.arg)

\* The DockAreaState of the default layout, as a build with the given version dumped it.
DefaultState(version) ==
    dump(set_version(reset_default_layout(NewDockArea(version), 0), version))

\* A layout the user edited: second tab active, left dock resized.
EditedState(version) ==
    dump(ApplyGesture(ApplyGesture(
        set_version(reset_default_layout(NewDockArea(version), 0), version),
        [op |-> "select_tab", arg |-> 1]), [op |-> "resize_left", arg |-> 300]))

\* A layout whose right dock names a panel the registry no longer resolves.
UnresolvableState(version) ==
    [DefaultState(version) EXCEPT !.right = Some([panels |-> << UnknownKey >>, size |-> Some(320)])]

\* The versions a layout.json found at startup may carry (None: no version field).
FileVersions == {Some(EXPECTED_VERSION), Some(STALE_VERSION), None}

\* What layout.json may hold when the process starts.
InitialFiles ==
    {MissingFile, CorruptFile}
        \cup {to_string_pretty(DefaultState(v)) : v \in FileVersions}
        \cup {to_string_pretty(EditedState(v)) : v \in FileVersions}
        \cup {to_string_pretty(UnresolvableState(v)) :
                  v \in {Some(EXPECTED_VERSION), Some(STALE_VERSION)}}

-----------------------------------------------------------------------------
(* load_layout                                                             *)

\* Mutant: every parsed layout is taken for an outdated one.
NeedsPromptAlways(state) == TRUE

\* Mutant: only a layout carrying an older version number counts as outdated.
NeedsPromptOnOlder(state) == state.version # None /\ state.version[1] < EXPECTED_VERSION

\* The version check of load_layout: state.version != Some(MAIN_DOCK_AREA.version).
NeedsPrompt(state) == state.version # Some(EXPECTED_VERSION)

\* load_layout on file content f: its result, whether it issued the prompt, and
\* the state it parsed. The prompt is issued before dock_area.load is tried.
load_layout(f) ==
    IF f.kind = "missing"
    THEN [result |-> "read_error", prompt |-> FALSE, state |-> None]
    ELSE IF from_str(f) = None
    THEN [result |-> "parse_error", prompt |-> FALSE, state |-> None]
    ELSE LET state == from_str(f)[1]
         IN  [result |-> IF Resolvable(state) THEN "ok" ELSE "load_error",
              prompt |-> NeedsPrompt(state),
              state  |-> Some(state)]

\* Mutant: a failed dock_area.load is not followed by the fallback.
NeedsResetUnlessLoadError(result) == result \in {"read_error", "parse_error"}

\* Mutant: only a failed read falls back to the default layout.
NeedsResetOnReadError(result) == result = "read_error"

\* The match in new: Err(err) => reset_default_layout.
NeedsReset(result) == result # "ok"

\* The answers the prompt may resolve to: Ok(0) "Yes", Ok(1) "No", Err (dismissed).
Answers == {Some(0), Some(1), None}

\* Mutant: any answer given resets, "No" included.
ResetOnAnyAnswer(a) == a # None

\* The spawned continuation of the prompt: answer.await == Ok(0).
ResetOnAnswer(a) == a = Some(0)

\* The prompt's state once answered.
AnswerLabel(a) == IF a = Some(0) THEN "yes" ELSE IF a = Some(1) THEN "no" ELSE "dismissed"

-----------------------------------------------------------------------------
(* save_layout: the debounce timer                                         *)

\* Mutant: the task stored before keeps running (detached instead of dropped).
DropTaskNoCancel(ts, handle) == ts

\* Assigning _save_layout_task drops the Task stored before, which cancels it
\* if it has not run yet.
DropTask(ts, handle) ==
    IF handle # None /\ ts[handle[1]] = "waiting"
    THEN [ts EXCEPT ![handle[1]] = "cancelled"]
    ELSE ts

\* Mutant: a timer already stored is kept, and the new one is spawned detached.
save_layout_detached(s) ==
    [tasks  |-> Append(s.tasks, "waiting"),
     handle |-> IF s.handle = None THEN Some(Len(s.tasks) + 1) ELSE s.handle]

\* save_layout: spawn a task that waits 10 seconds and store it in
\* _save_layout_task, replacing the one stored before.
save_layout(s) ==
    [tasks  |-> Append(DropTask(s.tasks, s.handle), "waiting"),
     handle |-> Some(Len(s.tasks) + 1)]

RECURSIVE save_layout_n(_, _)
\* The subscription of new: save_layout once per LayoutChanged delivered.
save_layout_n(s, n) == IF n = 0 THEN s ELSE save_layout_n(save_layout(s), n - 1)

\* Mutant: the expiry never skips.
ShouldSkipNever(state, last) == FALSE

\* The comparison at expiry: Some(&state) == last_layout_state.as_ref().
ShouldSkip(state, last) == Some(state) = last

\* The expiries the log keeps: the last two.
LastTwo(log) == IF Len(log) > 2 THEN Tail(log) ELSE log

\* The executor each file operation runs on. load_layout reads inside new, the
\* expiry writes inside cx.update of a task spawned with cx.spawn, and
\* reset_default_layout writes inside dock_area.update: all three on the
\* foreground (interactive) thread. Only the quit flush is spawned on
\* cx.background_executor().
Executor(site) == IF site = "flush" THEN "background" ELSE "foreground"

-----------------------------------------------------------------------------
(* The state machine                                                       *)

Init ==
    /\ pc = "init"
    /\ file \in InitialFiles
    /\ dock_area = NewDockArea(Some(EXPECTED_VERSION))
    /\ last_layout_state = None
    /\ _save_layout_task = None
    /\ tasks = << >>
    /\ prompt = "none"
    /\ quit_state = None
    /\ startup = "none"
    /\ loaded = None
    /\ resets = << >>
    /\ n_prompts = 0
    /\ last_written = None
    /\ notified_state = None
    /\ changed = FALSE
    /\ expiry_log = << >>
    /\ crash_site = "none"

\* reset_default_layout called by caller: the dock area is set to the default
\* layout and dumped, and save_state(..).unwrap() writes it or panics.
Reset(view, caller, io_ok) ==
    /\ dock_area' = reset_default_layout(view, Len(resets) + 2)
    /\ resets' = Append(resets, caller)
    /\ file' = save_state(file, dump(dock_area'), io_ok)
    /\ last_written' = IF io_ok THEN Some([by |-> caller, state |-> dump(dock_area')])
                       ELSE last_written
    /\ pc' = IF io_ok THEN "running" ELSE "crashed"
    /\ crash_site' = IF io_ok THEN crash_site ELSE "reset"

\* The steps of this run that delivered LayoutChanged so far: one per gesture
\* and one per reset after the prompt, which spawned ResetEvents tasks.
NotifySteps ==
    Len(tasks) - (ResetEvents - 1) * Cardinality({i \in 1..Len(resets) : resets[i] = "prompt"})

\* n LayoutChanged events reach the subscription of new.
Notify(n) ==
    LET s == save_layout_n([tasks |-> tasks, handle |-> _save_layout_task], n)
    IN  /\ tasks' = s.tasks
        /\ _save_layout_task' = s.handle
        /\ notified_state' = Some(dump(dock_area'))
        /\ changed' = (changed \/ dump(dock_area') # dump(dock_area))

\* StoryWorkspace::new in a fresh process: load the layout or fall back to the
\* default; the subscription to LayoutChanged is made after that, so the events
\* of the startup load and reset start no timer. The fields start as None.
Startup ==
    /\ \E io_ok \in BOOLEAN :
        LET r     == load_layout(file)
            view0 == NewDockArea(Some(EXPECTED_VERSION))
            view1 == IF r.result = "ok" THEN load(view0, r.state[1], 1) ELSE view0
        IN  /\ startup' = r.result
            /\ loaded' = r.state
            /\ prompt' = IF r.prompt THEN "outstanding" ELSE "none"
            /\ n_prompts' = IF r.prompt THEN 1 ELSE 0
            /\ IF NeedsReset(r.result)
               THEN /\ dock_area' = reset_default_layout(view1, 2)
                    /\ resets' = << "startup" >>
                    /\ file' = save_state(file, dump(dock_area'), io_ok)
                    /\ last_written' = IF io_ok
                                       THEN Some([by |-> "startup", state |-> dump(dock_area')])
                                       ELSE None
                    /\ pc' = IF io_ok THEN "running" ELSE "crashed"
                    /\ crash_site' = IF io_ok THEN "none" ELSE "reset"
               ELSE /\ io_ok
                    /\ dock_area' = view1
                    /\ pc' = "running"
                    /\ resets' = << >>
                    /\ last_written' = None
                    /\ crash_site' = "none"
                    /\ UNCHANGED file
    /\ last_layout_state' = None
    /\ _save_layout_task' = None
    /\ tasks' = << >>
    /\ quit_state' = None
    /\ notified_state' = None
    /\ changed' = FALSE
    /\ expiry_log' = << >>

\* The first start of the process.
New ==
    /\ pc = "init"
    /\ Startup

\* The process ended (exit or panic) and is started again on the layout.json
\* it left behind.
Restart ==
    /\ pc \in {"exited", "crashed"}
    /\ Startup

\* The user answers or dismisses the version prompt; only Ok(0) resets.
Answer(a) ==
    /\ pc = "running"
    /\ prompt = "outstanding"
    /\ prompt' = AnswerLabel(a)
    /\ IF ResetOnAnswer(a)
       THEN /\ NotifySteps < MaxNotifySteps
            /\ \E io_ok \in BOOLEAN :
                /\ Reset(dock_area, "prompt", io_ok)
                /\ IF io_ok
                   THEN Notify(ResetEvents)
                   ELSE UNCHANGED << tasks, _save_layout_task, notified_state, changed >>
       ELSE UNCHANGED << pc, file, dock_area, resets, last_written, crash_site,
                         tasks, _save_layout_task, notified_state, changed >>
    /\ UNCHANGED << last_layout_state, quit_state, startup, loaded, n_prompts, expiry_log >>

\* A user gesture mutates the dock area and emits LayoutChanged: save_layout.
Gesture(g) ==
    /\ pc = "running"
    /\ NotifySteps < MaxNotifySteps
    /\ dock_area' = ApplyGesture(dock_area, g)
    /\ Notify(1)
    /\ UNCHANGED << pc, file, last_layout_state, prompt, quit_state, startup, loaded,
                    resets, n_prompts, last_written, expiry_log, crash_site >>

\* Mutant: the snapshot is stored before the write is known to have succeeded.
store_before_write(state, last, io_ok) == Some(state)

\* last_layout_state after the write of an expiry: the assignment follows
\* save_state(..).unwrap(), so a failed write leaves the snapshot as it was.
store_after_write(state, last, io_ok) == IF io_ok THEN Some(state) ELSE last

\* The timer of task t expires: dump, compare with last_layout_state, and
\* unless equal save_state(..).unwrap() and store the state.
Expire(t) ==
    /\ pc = "running"
    /\ tasks[t] = "waiting"
    /\ LET state == dump(dock_area)
           skip  == ShouldSkip(state, last_layout_state)
       IN  \E io_ok \in BOOLEAN :
            /\ skip => io_ok
            /\ tasks' = [tasks EXCEPT ![t] = "finished"]
            /\ expiry_log' = LastTwo(Append(expiry_log,
                    [stored      |-> _save_layout_task = Some(t),
                     wrote       |-> ~skip,
                     ok          |-> io_ok,
                     as_notified |-> Some(state) = notified_state,
                     differs     |-> Some(state) # last_layout_state,
                     unchanged   |-> ~changed]))
            /\ changed' = FALSE
            /\ IF skip
               THEN UNCHANGED << pc, file, last_layout_state, last_written, crash_site >>
               ELSE /\ file' = save_state(file, state, io_ok)
                    /\ last_layout_state' = store_after_write(state, last_layout_state, io_ok)
                    /\ last_written' = IF io_ok
                                       THEN Some([by |-> "debounce", state |-> state])
                                       ELSE last_written
                    /\ pc' = IF io_ok THEN pc ELSE "crashed"
                    /\ crash_site' = IF io_ok THEN crash_site ELSE "expiry"
    /\ UNCHANGED << dock_area, _save_layout_task, prompt, quit_state, startup, loaded,
                    resets, n_prompts, notified_state >>

\* The on_app_quit callback: dump the dock area and spawn the write.
Quit ==
    /\ pc = "running"
    /\ quit_state' = Some(dump(dock_area))
    /\ pc' = "quitting"
    /\ UNCHANGED << file, dock_area, last_layout_state, _save_layout_task, tasks, prompt,
                    startup, loaded, resets, n_prompts, last_written, notified_state,
                    changed, expiry_log, crash_site >>

\* Mutant: the flush skips the write when the dump equals last_layout_state.
FlushUnlessSaved ==
    /\ pc = "quitting"
    /\ \E io_ok \in BOOLEAN :
        IF Some(quit_state[1]) = last_layout_state
        THEN /\ io_ok
             /\ pc' = "exited"
             /\ UNCHANGED << file, last_written, crash_site >>
        ELSE /\ file' = save_state(file, quit_state[1], io_ok)
             /\ last_written' = IF io_ok THEN Some([by |-> "flush", state |-> quit_state[1]])
                                ELSE last_written
             /\ pc' = IF io_ok THEN "exited" ELSE "crashed"
             /\ crash_site' = IF io_ok THEN crash_site ELSE "flush"
    /\ UNCHANGED << dock_area, last_layout_state, _save_layout_task, tasks, prompt,
                    quit_state, startup, loaded, resets, n_prompts, notified_state,
                    changed, expiry_log >>

\* The future of on_app_quit, awaited before the process exits:
\* save_state(&state).unwrap().
Flush ==
    /\ pc = "quitting"
    /\ \E io_ok \in BOOLEAN :
        /\ file' = save_state(file, quit_state[1], io_ok)
        /\ last_written' = IF io_ok THEN Some([by |-> "flush", state |-> quit_state[1]])
                           ELSE last_written
        /\ pc' = IF io_ok THEN "exited" ELSE "crashed"
        /\ crash_site' = IF io_ok THEN crash_site ELSE "flush"
    /\ UNCHANGED << dock_area, last_layout_state, _save_layout_task, tasks, prompt,
                    quit_state, startup, loaded, resets, n_prompts, notified_state,
                    changed, expiry_log >>

Next ==
    \/ New
    \/ \E a \in Answers : Answer(a)
    \/ \E g \in Gestures : Gesture(g)
    \/ \E t \in DOMAIN tasks : Expire(t)
    \/ Quit
    \/ Flush

Spec == Init /\ [][Next]_vars

\* Runs of the process one after the other, each on the file the last one left.
NextRestart == Next \/ Restart

SpecRestart == Init /\ [][NextRestart]_vars

-----------------------------------------------------------------------------
(* Properties                                                              *)

\* The timer tasks that are waiting for their 10 seconds to pass.
Waiting == {t \in DOMAIN tasks : tasks[t] = "waiting"}

\* A step in which some timer's expiry logic runs.
ExpiryStep == \E t \in DOMAIN tasks : tasks[t] = "waiting" /\ tasks'[t] = "finished"

\* Whether state is the built-in default layout stamped with the expected version.
IsDefaultLayout(state) ==
    /\ state.version = Some(EXPECTED_VERSION)
    /\ state.root.type = "split"
    /\ state.root.axis = "vertical"
    /\ Len(state.root.children) = 1
    /\ state.root.children[1].type = "tabs"
    /\ state.root.children[1].panels = DefaultTabKeys
    /\ state.left = Some([panels |-> << "ListStory" >>, size |-> Some(350)])
    /\ state.bottom = Some([panels |-> << "TooltipStory", "IconStory" >>, size |-> Some(200)])
    /\ state.right = Some([panels |-> << "ImageStory" >>, size |-> Some(320)])

\* C1 as claimed: every burst of LayoutChanged notifications ends in exactly one
\* write by the expiry of its last timer, of the state as of the last notification.
C1_ExactlyOneWritePerBurst ==
    \A i \in 1..Len(expiry_log) :
        /\ expiry_log[i].stored
        /\ expiry_log[i].wrote
        /\ expiry_log[i].as_notified

\* C1 amended: the only expiry logic that runs for a burst is that of the timer
\* started by its last notification (so nothing is written earlier and at most one
\* write is attempted); it dumps the state as of that notification, and it calls
\* save_state exactly when that dump differs from last_layout_state.
C1_DebounceCoalescing ==
    \A i \in 1..Len(expiry_log) :
        /\ expiry_log[i].stored
        /\ expiry_log[i].as_notified
        /\ expiry_log[i].wrote <=> expiry_log[i].differs

\* C1 witness: a burst of at least two notifications (the earlier timer was
\* cancelled) whose last timer expired and wrote the live layout.
C1_Witness ==
    /\ pc = "running"
    /\ _save_layout_task # None
    /\ _save_layout_task[1] >= 2
    /\ tasks[_save_layout_task[1]] = "finished"
    /\ tasks[_save_layout_task[1] - 1] = "cancelled"
    /\ expiry_log[Len(expiry_log)].wrote
    /\ file = to_string_pretty(dump(dock_area))

\* C2: at most one debounce timer is pending, it is the one stored in
\* _save_layout_task, and every expiry logic that ran was that of the timer
\* stored at that moment (never of a replaced one).
C2_SinglePendingTimer ==
    /\ Cardinality(Waiting) <= 1
    /\ \A t \in Waiting : _save_layout_task = Some(t)
    /\ \A i \in 1..Len(expiry_log) : expiry_log[i].stored

\* C2 witness: a timer was replaced (cancelled) and its successor is pending.
C2_Witness ==
    /\ \E t \in DOMAIN tasks : tasks[t] = "cancelled"
    /\ Cardinality(Waiting) = 1

\* C3 as claimed: two consecutive expiries with no layout change between them
\* perform exactly one disk write in total.
C3_ExactlyOneWriteInTwoExpiries ==
    (Len(expiry_log) = 2 /\ expiry_log[2].unchanged) =>
        (expiry_log[1].wrote /\ ~expiry_log[2].wrote)
            \/ (~expiry_log[1].wrote /\ expiry_log[2].wrote)

\* C3 amended: an expiry whose dump equals last_layout_state writes nothing and
\* leaves last_layout_state alone; of two consecutive expiries with no layout
\* change between them the second never writes, so together they write at most
\* once (once if the first found a difference, not at all otherwise).
C3_NoOpSkip ==
    /\ [][(ExpiryStep /\ Some(dump(dock_area)) = last_layout_state) =>
            (file' = file /\ last_layout_state' = last_layout_state
                /\ last_written' = last_written)]_vars
    /\ []((Len(expiry_log) = 2 /\ expiry_log[2].unchanged) =>
            (~expiry_log[2].wrote /\ (expiry_log[1].wrote <=> expiry_log[1].differs)))

\* C3 witness: two consecutive expiries with no layout change between them, the
\* first of which wrote and the second of which skipped.
C3_Witness ==
    /\ Len(expiry_log) = 2
    /\ expiry_log[2].unchanged
    /\ expiry_log[1].wrote
    /\ ~expiry_log[2].wrote
    /\ last_layout_state = Some(dump(dock_area))

\* C4 as claimed: a failed write of layout.json never crashes the workspace.
C4_WriteFailureNeverCrashes == pc # "crashed"

\* C5: when the prompt is answered "Yes" and the reset returns, the live dock
\* area is the default layout stamped with version 5 and layout.json holds
\* exactly its dump, whatever was edited or saved while the prompt was open.
C5_YesResetsAndPersists ==
    [][(prompt = "outstanding" /\ prompt' = "yes" /\ pc' # "crashed") =>
        (/\ IsDefaultLayout(dump(dock_area'))
         /\ file' = to_string_pretty(dump(dock_area'))
         /\ from_str(file')[1].version = Some(EXPECTED_VERSION))]_vars

\* C5 witness: "Yes" was answered after a debounced save had persisted the stale
\* layout; the dock area and the file now hold the default layout.
C5_Witness ==
    /\ prompt = "yes"
    /\ pc = "running"
    /\ last_layout_state # None
    /\ last_layout_state[1].version = Some(STALE_VERSION)
    /\ IsDefaultLayout(dump(dock_area))
    /\ file = to_string_pretty(dump(dock_area))

C7_StartupFailureBootstrapsDefault ==
    [][(pc = "init" /\ pc' # "init" /\ file.kind \in {"missing", "corrupt"}) =>
        (/\ prompt' = "none"
         /\ n_prompts' = 0
         /\ \/ /\ pc' = "running"
               /\ IsDefaultLayout(dump(dock_area'))
               /\ file' = to_string_pretty(dump(dock_area'))
            \/ /\ pc' = "crashed"
               /\ crash_site' = "reset"
               /\ file' = file)]_vars

\* C7 witness: the process started on a corrupt layout.json and runs with the
\* default layout, freshly written.
C7_Witness ==
    /\ startup = "parse_error"
    /\ pc = "running"
    /\ tasks = << >>
    /\ resets = << "startup" >>
    /\ IsDefaultLayout(dump(dock_area))
    /\ file = to_string_pretty(dump(dock_area))

\* C8 as claimed: the prompt is issued at most once and reset_default_layout
\* runs at most once in a run of the process.
C8_OneShot == pc = "running" => (n_prompts <= 1 /\ Len(resets) <= 1)

\* C9: the process exits only after the flush wrote, and then layout.json holds
\* the dump of the live dock area taken at quit, whether or not that dump equals
\* last_layout_state and whether or not a debounce timer was still pending.
C9_ShutdownFlush ==
    pc = "exited" =>
        /\ quit_state = Some(dump(dock_area))
        /\ file = to_string_pretty(dump(dock_area))
        /\ last_written # None
        /\ last_written[1] = [by |-> "flush", state |-> dump(dock_area)]

\* C9 witness: the process exited with a debounce timer still pending and with
\* the dump equal to last_layout_state.
C9_Witness ==
    /\ pc = "exited"
    /\ Waiting # {}
    /\ last_layout_state = Some(dump(dock_area))
    /\ file = to_string_pretty(dump(dock_area))

\* C10 as claimed: last_layout_state, when set, is the state most recently
\* written to layout.json by this process, whoever wrote it.
C10_SnapshotIsLastWritten ==
    last_layout_state # None =>
        /\ last_written # None
        /\ last_layout_state[1] = last_written[1].state

\* C11 as claimed: a timer expiry never writes a state equal to the one
\* layout.json already holds from the most recent write of this process.
C11_NoDuplicateWrite ==
    [][(ExpiryStep /\ pc' = pc /\ last_written # None
            /\ last_written[1].state = dump(dock_area)) =>
        last_written' = last_written]_vars

\* C12 as claimed: the read of layout.json at startup and every write of it run
\* on the background executor.
C12_NoIoOnInteractiveThread ==
    /\ startup # "none" => Executor("load") = "background"
    /\ last_written # None => Executor(last_written[1].by) = "background"

C14_SnapshotOnlyBySuccessfulExpiry ==
    [][/\ (pc = "init" /\ pc' # "init") => last_layout_state' = None
       /\ last_layout_state' # last_layout_state =>
            /\ ExpiryStep
            /\ ~ShouldSkip(dump(dock_area), last_layout_state)
            /\ pc' = "running"
            /\ file' = to_string_pretty(dump(dock_area))
            /\ last_layout_state' = Some(dump(dock_area))]_vars

\* C14 witness: an expiry stored its state, then the reset after "Yes" wrote
\* the default layout and cancelled a timer; the snapshot is still the old one.
C14_Witness ==
    /\ pc = "running"
    /\ last_layout_state # None
    /\ prompt = "yes"
    /\ last_written = Some([by |-> "prompt", state |-> dump(dock_area)])
    /\ last_layout_state # Some(dump(dock_area))
    /\ \E t \in DOMAIN tasks : tasks[t] = "cancelled"
C16_PromptExactlyOnVersionMismatch ==
    [][/\ (pc = "init" /\ pc' # "init") =>
            /\ (startup' \in {"read_error", "parse_error"}) <=> (loaded' = None)
            /\ (prompt' = "outstanding") <=>
                    (loaded' # None /\ loaded'[1].version # Some(EXPECTED_VERSION))
            /\ prompt' \in {"outstanding", "none"}
            /\ n_prompts' = IF prompt' = "outstanding" THEN 1 ELSE 0
       /\ pc # "init" => n_prompts' = n_prompts
       /\ (pc # "init" /\ prompt' # prompt) =>
            /\ prompt = "outstanding"
            /\ prompt' \in {"yes", "no", "dismissed"}
            /\ IF prompt' = "yes"
               THEN resets' = Append(resets, "prompt")
               ELSE UNCHANGED << pc, file, dock_area, resets, tasks, _save_layout_task,
                                 last_layout_state, last_written >>
       /\ (pc # "init" /\ resets' # resets) => (prompt = "outstanding" /\ prompt' = "yes")]_vars

\* C16 witness: layout.json parsed but carried no version; the prompt was
\* issued and dismissed, and the loaded layout is still live and on disk.
C16_Witness ==
    /\ pc = "running"
    /\ startup = "ok"
    /\ loaded # None
    /\ loaded[1].version = None
    /\ n_prompts = 1
    /\ prompt = "dismissed"
    /\ resets = << >>
    /\ last_written = None
    /\ dump(dock_area).root = loaded[1].root
\* C17 as claimed: once LayoutChanged has been delivered and every timer has
\* expired or was cancelled, with all writes successful and the process still
\* running, layout.json holds the dump of the live dock area; in particular
\* an expiry that skipped its write left the file holding the current state.
C17_EventualPersistence ==
    (pc = "running" /\ tasks # << >> /\ Waiting = {}) =>
        file = to_string_pretty(dump(dock_area))
RECURSIVE item_holdings(_, _)
\* The places of a dock item that hold a panel instance: (path, tab index, id).
item_holdings(item, path) ==
    IF item.type = "tabs"
    THEN {<< path, i, item.panels[i].id >> : i \in 1..Len(item.panels)}
    ELSE UNION {item_holdings(item.children[i], Append(path, i)) :
                    i \in 1..Len(item.children)}

\* The places of an auxiliary dock (numbered n) that hold a panel instance.
dock_holdings(dock, n) ==
    IF dock = None THEN {}
    ELSE {<< << n >>, i, dock[1].panels[i].id >> : i \in 1..Len(dock[1].panels)}

\* Every place of the dock area that holds a panel instance.
view_holdings(view) ==
    item_holdings(view.root, << 0 >>) \cup dock_holdings(view.left, 1)
        \cup dock_holdings(view.bottom, 2) \cup dock_holdings(view.right, 3)

\* C18: from any dock area state, reset_default_layout leaves the dock area
\* dumping to the one default state (version 5; root a vertical split with one
\* tab group and one size; left dock 1 panel at 350px, bottom dock 2 panels at
\* 200px, right dock 1 panel at 320px), a second call right after it dumps to
\* the same state, layout.json holds that state when the write succeeded, and
\* each panel instance of the dock area is held in exactly one place.
C18_ResetIdempotent ==
    [][resets' # resets =>
        LET d == dump(dock_area')
            h == view_holdings(dock_area')
        IN  /\ IsDefaultLayout(d)
            /\ d = DefaultState(Some(EXPECTED_VERSION))
            /\ Len(d.root.sizes) = 1
            /\ Len(d.root.sizes) = Len(d.root.children)
            /\ Len(d.left[1].panels) = 1
            /\ Len(d.bottom[1].panels) = 2
            /\ Len(d.right[1].panels) = 1
            /\ dump(reset_default_layout(dock_area', Len(resets') + 2)) = d
            /\ pc' = "running" => file' = to_string_pretty(d)
            /\ Cardinality(h) = 17 + 1 + 2 + 1
            /\ Cardinality({x[3] : x \in h}) = Cardinality(h)]_vars

\* C18 witness: reset_default_layout ran twice with no gesture in between
\* (at startup and after "Yes"): the default layout is live and on disk.
C18_Witness ==
    /\ pc = "running"
    /\ resets = << "startup", "prompt" >>
    /\ Len(tasks) = ResetEvents
    /\ dump(dock_area) = DefaultState(Some(EXPECTED_VERSION))
    /\ file = to_string_pretty(dump(dock_area))
====
